---- MODULE Spec2Model ----
(***************************************************************************)
(* The getWeather tool of weather-mcp, in its three variants:              *)
(*   "openmeteo"   src/src/index.ts            (Nominatim + Open-Meteo)    *)
(*   "accuweather" src/unnamed/part_000:1-210  (AccuWeather, ambient cf)   *)
(*   "country"     src/unnamed/part_000:212-370 (Open-Meteo by country)    *)
(* Numbers that are temperatures are kept in thousandths of a degree, so   *)
(* that C*9/5+32 and toFixed(1) are exact integer computations.            *)
(***************************************************************************)
EXTENDS Integers, Sequences, FiniteSets, TLC

VARIABLES env, inv, requestStorage, lastRun, probe

vars == <<env, inv, requestStorage, lastRun, probe>>

(* ---------------------------- bounds ----------------------------------- *)

\* number of getWeather invocations that can be in flight together (SpecConc)
NumInv == 2
\* provider temperatures range over -MaxTemp..MaxTemp hundredths of a degree
MaxTemp == 24
\* condition codes given to getWeatherDescription range over -MaxCode..MaxCode
MaxCode == 100

(* ---------------------------- JavaScript values ------------------------ *)

Undefined == [t |-> "undefined", n |-> 0, s |-> ""]
Null == [t |-> "null", n |-> 0, s |-> ""]
Num(n) == [t |-> "number", n |-> n, s |-> ""]
Str(s) == [t |-> "string", n |-> 0, s |-> s]

\* a ?? b
Coalesce(a, b) == IF a.t \in {"undefined", "null"} THEN b ELSE a

\* ToBoolean(x), as used by !x, x || y and x ? y : z
Truthy(x) ==
  CASE x.t = "number" -> x.n # 0
    [] x.t = "string" -> x.s # ""
    [] x.t \in {"object", "array"} -> TRUE
    [] OTHER -> FALSE

\* a || b
OrElse(a, b) == IF Truthy(a) THEN a ELSE b

\* z.string()
IsString(x) == x.t = "string"
\* z.number()
IsNumber(x) == x.t = "number"
\* z.string().optional()
IsOptString(x) == x.t \in {"string", "undefined"}
\* z.number().optional()
IsOptNumber(x) == x.t \in {"number", "undefined"}

(* ---------------------------- pure helpers ----------------------------- *)

\* the conversion with its offset forgotten
celsiusToFahrenheitNoOffset(celsius) == (celsius * 9) \div 5
\* celsius in thousandths of a degree; every celsius the model draws is a
\* multiple of 10, so the division is exact
celsiusToFahrenheit(celsius) == (celsius * 9) \div 5 + 32000

\* Number.prototype.toFixed(1) of x thousandths, as the value printed (in
\* thousandths): the nearest tenth, the sign taken off first and put back.
\* No value the model draws is an exact tie.
Abs(x) == IF x < 0 THEN -x ELSE x
toFixed1(x) == (IF x < 0 THEN -1 ELSE 1) * (((Abs(x) + 50) \div 100) * 100)

weatherCodes ==
  [c \in {0, 1, 2, 3, 45, 48, 51, 53, 55, 56, 57, 61, 63, 65, 66, 67, 71, 73,
          75, 77, 80, 81, 82, 85, 86, 95, 96, 99} |->
    CASE c = 0 -> "Clear sky"
      [] c = 1 -> "Mainly clear"
      [] c = 2 -> "Partly cloudy"
      [] c = 3 -> "Overcast"
      [] c = 45 -> "Foggy"
      [] c = 48 -> "Depositing rime fog"
      [] c = 51 -> "Light drizzle"
      [] c = 53 -> "Moderate drizzle"
      [] c = 55 -> "Dense drizzle"
      [] c = 56 -> "Light freezing drizzle"
      [] c = 57 -> "Dense freezing drizzle"
      [] c = 61 -> "Slight rain"
      [] c = 63 -> "Moderate rain"
      [] c = 65 -> "Heavy rain"
      [] c = 66 -> "Light freezing rain"
      [] c = 67 -> "Heavy freezing rain"
      [] c = 71 -> "Slight snow fall"
      [] c = 73 -> "Moderate snow fall"
      [] c = 75 -> "Heavy snow fall"
      [] c = 77 -> "Snow grains"
      [] c = 80 -> "Slight rain showers"
      [] c = 81 -> "Moderate rain showers"
      [] c = 82 -> "Violent rain showers"
      [] c = 85 -> "Slight snow showers"
      [] c = 86 -> "Heavy snow showers"
      [] c = 95 -> "Thunderstorm"
      [] c = 96 -> "Thunderstorm with slight hail"
      [] c = 99 -> "Thunderstorm with heavy hail"]

\* the lookup with its || 'Unknown' forgotten
getWeatherDescriptionNoFallback(code) ==
  IF code \in DOMAIN weatherCodes THEN weatherCodes[code] ELSE ""
\* weatherCodes[code] || 'Unknown'
getWeatherDescription(code) ==
  IF code \in DOMAIN weatherCodes /\ weatherCodes[code] # ""
  THEN weatherCodes[code]
  ELSE "Unknown"

\* the value thrown is always an Error object here; the other two branches
\* are kept as the code has them
getErrorMessage(error) ==
  CASE error.t = "string" -> error.s
    [] error.t = "object" /\ error.message.t = "string" -> error.message.s
    [] OTHER -> "Unknown Error"

Err(name, message) == [t |-> "object", s |-> "", name |-> name, message |-> Str(message)]

(* ---------------------------- errors and results ----------------------- *)

NoResult == [isError |-> FALSE, message |-> "", lines |-> <<>>]
\* { isError: true, content: [{ type: 'text', text }] }
ErrorResult(text) == [isError |-> TRUE, message |-> text, lines |-> <<>>]
\* { content: [{ type: 'text', text }] }
TextResult(lines) == [isError |-> FALSE, message |-> "", lines |-> lines]

FetchFailed == Err("TypeError", "fetch failed")
JsonSyntaxError == Err("SyntaxError", "Unexpected token < in JSON")
NullAccess == Err("TypeError", "Cannot read properties of null")
ZodError(path) == Err("ZodError", "zod issues at " \o path)
InvariantError(message) == Err("InvariantError", message)

(* ---------------------------- text of a result ------------------------- *)

\* one line of the text; a and b are the values the template interpolates
Line(kind, a, b) == [kind |-> kind, a |-> a, b |-> b]
Blank == Line("blank", Undefined, Undefined)

RECURSIVE trimStart(_)
trimStart(lines) ==
  IF lines # <<>> /\ Head(lines).kind = "blank" THEN trimStart(Tail(lines)) ELSE lines

RECURSIVE trimEnd(_)
trimEnd(lines) ==
  IF lines # <<>> /\ lines[Len(lines)].kind = "blank"
  THEN trimEnd(SubSeq(lines, 1, Len(lines) - 1))
  ELSE lines

\* String.prototype.trim() of template text: the whitespace-only lines at
\* both ends go, the lines inside stay
trim(lines) == trimEnd(trimStart(lines))

UnitLetter(unit) == IF unit = "fahrenheit" THEN "F" ELSE "C"

(* ---------------------------- openmeteo variant ------------------------ *)

\* nominatimResponseSchema.parse succeeds
nominatimParseOk(body) ==
  /\ body.t = "object"
  /\ \/ body.address.t = "undefined"
     \/ /\ body.address.t = "object"
        /\ IsOptString(body.address.city)
        /\ IsOptString(body.address.town)
        /\ IsOptString(body.address.village)
        /\ IsOptString(body.address.country)

\* data.address?.x
AddressField(body, f) == IF body.address.t = "object" THEN body.address[f] ELSE Undefined

\* what reverseGeocode returns for a body the schema accepts
reverseGeocodeResult(body) ==
  [city |-> OrElse(AddressField(body, "city"),
              OrElse(AddressField(body, "town"),
                OrElse(AddressField(body, "village"), Str("Unknown location")))),
   country |-> OrElse(AddressField(body, "country"), Str("Unknown country")),
   key |-> Undefined, latitude |-> Undefined, longitude |-> Undefined]

\* weatherResultSchema.parse succeeds
weatherResultParseOk(body) ==
  /\ body.t = "object"
  /\ body.current.t = "object"
  /\ IsNumber(body.current.temperature_2m)
  /\ IsNumber(body.current.relative_humidity_2m)
  /\ IsNumber(body.current.wind_speed_10m)
  /\ IsNumber(body.current.weather_code)

\* the temperature the openmeteo variant prints, before toFixed(1)
openMeteoTemperature(unit, current) ==
  IF unit = "fahrenheit"
  THEN celsiusToFahrenheit(current.temperature_2m.n)
  ELSE current.temperature_2m.n

\* the text of src/src/index.ts:117-123
openMeteoText(location, unit, current) ==
  trim(<< Blank,
          Line("header", location.city, location.country),
          Line("temperature", Num(toFixed1(openMeteoTemperature(unit, current))),
               Str(UnitLetter(unit))),
          Line("humidity", current.relative_humidity_2m, Str("%")),
          Line("wind", current.wind_speed_10m, Str("km/h")),
          Line("conditions", Str(getWeatherDescription(current.weather_code.n)), Undefined),
          Blank >>)

(* ---------------------------- accuweather variant ---------------------- *)

\* accuWeatherLocationSchema.parse succeeds
accuWeatherLocationParseOk(body) ==
  /\ body.t = "object"
  /\ IsString(body.Key)
  /\ IsString(body.LocalizedName)
  /\ body.Country.t = "object"
  /\ IsString(body.Country.LocalizedName)

\* what getLocationKey returns for a body the schema accepts
getLocationKeyResult(body) ==
  [city |-> body.LocalizedName, country |-> body.Country.LocalizedName,
   key |-> body.Key, latitude |-> Undefined, longitude |-> Undefined]

\* a { Metric: { Value, Unit }, Imperial: { Value, Unit } } object
DualUnitOk(o) ==
  /\ o.t = "object"
  /\ IsNumber(o.MetricValue) /\ IsString(o.MetricUnit)
  /\ IsNumber(o.ImperialValue) /\ IsString(o.ImperialUnit)

\* accuWeatherCurrentConditionsSchema.parse(data[0]) succeeds
accuWeatherCurrentConditionsParseOk(first) ==
  /\ first.t = "object"
  /\ IsString(first.WeatherText)
  /\ DualUnitOk(first.Temperature)
  /\ IsOptNumber(first.RelativeHumidity)
  /\ first.Wind.t = "undefined" \/ DualUnitOk(first.Wind)

\* the temperature the accuweather variant prints, before toFixed(1)
accuWeatherTemperature(unit, first) ==
  IF unit = "fahrenheit"
  THEN first.Temperature.ImperialValue.n
  ELSE first.Temperature.MetricValue.n

\* the text of src/unnamed/part_000:173-179
accuWeatherText(location, unit, first) ==
  trim(<< Blank,
          Line("header", location.city, location.country),
          Line("temperature", Num(toFixed1(accuWeatherTemperature(unit, first))),
               Str(UnitLetter(unit))),
          IF Truthy(first.RelativeHumidity)
          THEN Line("humidity", first.RelativeHumidity, Str("%"))
          ELSE Blank,
          IF first.Wind.t = "object"
          THEN Line("wind", first.Wind.MetricValue, first.Wind.MetricUnit)
          ELSE Blank,
          Line("conditions", first.WeatherText, Undefined),
          Blank >>)

\* the check as lat !== undefined
IsCoordinateLoose(x) == x.t # "undefined"
\* typeof lat === 'number'
IsCoordinate(x) == x.t = "number"

(* ---------------------------- country variant -------------------------- *)

\* the check as geocodingData.results, an empty list passing it
hasFirstResultLoose(body) == body.results.t = "array"
\* geocodingData.results?.[0] is truthy (geocodingData is an object)
hasFirstResult(body) == body.results.t = "array" /\ Len(body.results.items) > 0

\* geocodingData.results[0], read only once it is known to be there
firstResult(body) ==
  IF body.results.t = "array" /\ Len(body.results.items) > 0
  THEN body.results.items[1]
  ELSE [name |-> Undefined, latitude |-> Undefined, longitude |-> Undefined,
        country |-> Undefined]

\* the fields the handler reads from geocodingData.results[0]
firstResultLocation(body) ==
  [city |-> firstResult(body).name, country |-> firstResult(body).country,
   key |-> Undefined,
   latitude |-> firstResult(body).latitude,
   longitude |-> firstResult(body).longitude]

\* weatherCodes[code] || 'Unknown' for the unvalidated weather_code
countryDescription(code) ==
  IF code.t = "number" THEN getWeatherDescription(code.n) ELSE "Unknown"

\* the text of src/unnamed/part_000:320-324
countryText(location, current) ==
  << Line("header", location.city, location.country),
     Line("temperature", current.temperature_2m, Str("C")),
     Line("humidity", current.relative_humidity_2m, Str("%")),
     Line("wind", current.wind_speed_10m, Str("km/h")),
     Line("conditions", Str(countryDescription(current.weather_code)), Undefined) >>

(* ---------------------------- what the world can send ----------------- *)

\* temperatures a provider reports, in thousandths of a degree: every
\* hundredth in range but the exact ties of toFixed(1), whose printed digit
\* depends on the binary representation of the number
Temps == {10 * h : h \in {x \in -MaxTemp..MaxTemp : Abs(x) % 10 # 5}}

NoCf == [t |-> "undefined", latitude |-> Undefined, longitude |-> Undefined]
Cf(latitude, longitude) == [t |-> "object", latitude |-> latitude, longitude |-> longitude]
\* the inbound Request: request.cf and request.headers.get('CF-IPCountry')
Request(cf, ipCountry) == [t |-> "request", cf |-> cf, ipCountry |-> ipCountry]
\* requestStorage.getStore() outside any run()
NoStore == [t |-> "undefined", cf |-> NoCf, ipCountry |-> Null]

Requests ==
  { Request(NoCf, Null),
    Request(Cf(Num(30), Num(-97)), Str("US")),
    Request(Cf(Str("30.27"), Str("-97.74")), Str("US")),
    Request(Cf(Num(30), Undefined), Null) }

\* the request of invocation i when several are in flight: its coordinates
\* and country tell the requests apart
RequestOf(i) == Request(Cf(Num(10 * i), Num(10 * i + 1)), Str("C" \o ToString(i)))

Args(latitude, longitude, unit, country) ==
  [latitude |-> latitude, longitude |-> longitude, unit |-> unit, country |-> country]

Units == {Undefined, Str("celsius"), Str("fahrenheit")}

\* arguments the tool's input schema lets through to the handler
ArgsOf(variant) ==
  CASE variant = "openmeteo" ->
         {Args(Num(51), Num(0), u, Undefined) : u \in Units}
    [] variant = "accuweather" ->
         {Args(la, lo, u, Undefined) :
            la \in {Undefined, Num(51)}, lo \in {Undefined, Num(0)}, u \in Units}
    [] variant = "country" ->
         {Args(Undefined, Undefined, Undefined, c) :
            c \in {Undefined, Str(""), Str("France")}}

ArgsConc(variant) ==
  CASE variant = "accuweather" ->
         {Args(Undefined, Undefined, Undefined, Undefined),
          Args(Num(51), Undefined, Undefined, Undefined),
          Args(Num(51), Num(0), Undefined, Undefined)}
    [] variant = "country" ->
         {Args(Undefined, Undefined, Undefined, c) : c \in {Undefined, Str("France")}}

\* a fetch that rejects, a body that is not JSON, a JSON body
NoResp == [net |-> "none", body |-> Undefined]
Rejected == [net |-> "reject", body |-> Undefined]
BadJson == [net |-> "badjson", body |-> Undefined]
Json(body) == [net |-> "json", body |-> body]

NoAddress == [t |-> "undefined", city |-> Undefined, town |-> Undefined,
              village |-> Undefined, country |-> Undefined]
Address(city, town, village, country) ==
  [t |-> "object", city |-> city, town |-> town, village |-> village, country |-> country]

NominatimBodies ==
  { [t |-> "null", address |-> NoAddress],
    [t |-> "object", address |-> NoAddress],
    [t |-> "object", address |-> [NoAddress EXCEPT !.t = "null"]],
    [t |-> "object", address |-> Address(Undefined, Undefined, Undefined, Undefined)],
    [t |-> "object", address |-> Address(Num(5), Undefined, Undefined, Str("France"))],
    [t |-> "object", address |-> Address(Str("London"), Undefined, Undefined, Str("United Kingdom"))],
    [t |-> "object", address |-> Address(Str(""), Str("Ely"), Undefined, Str("United Kingdom"))],
    [t |-> "object", address |-> Address(Undefined, Undefined, Str("Grasmere"), Undefined)] }

NoCountry == [t |-> "undefined", LocalizedName |-> Undefined]
AccuLocation(t, key, name, country) ==
  [t |-> t, Key |-> key, LocalizedName |-> name, Country |-> country]

AccuLocationBodies ==
  { AccuLocation("null", Undefined, Undefined, NoCountry),
    AccuLocation("object", Undefined, Undefined, NoCountry),
    AccuLocation("object", Str("328328"), Str("London"), NoCountry),
    AccuLocation("object", Str("328328"), Undefined,
                 [t |-> "object", LocalizedName |-> Str("United Kingdom")]),
    AccuLocation("object", Str("328328"), Str("London"),
                 [t |-> "object", LocalizedName |-> Str("United Kingdom")]) }

NoResults == [t |-> "undefined", items |-> <<>>]
Results(items) == [t |-> "array", items |-> items]
Place(name, latitude, longitude, country) ==
  [name |-> name, latitude |-> latitude, longitude |-> longitude, country |-> country]

GeocodingBodies ==
  { [t |-> "null", results |-> NoResults],
    [t |-> "object", results |-> NoResults],
    [t |-> "object", results |-> Results(<<>>)],
    [t |-> "object", results |-> Results(<<Place(Undefined, Num(46), Num(2), Undefined)>>)],
    [t |-> "object", results |-> Results(<<Place(Str("France"), Undefined, Undefined, Str("France"))>>)],
    [t |-> "object", results |-> Results(<<Place(Str("France"), Num(46), Num(2), Str("France"))>>)] }

NoCurrent == [t |-> "undefined", temperature_2m |-> Undefined,
              relative_humidity_2m |-> Undefined, wind_speed_10m |-> Undefined,
              weather_code |-> Undefined]
Current(temperature, humidity, wind, code) ==
  [t |-> "object", temperature_2m |-> temperature, relative_humidity_2m |-> humidity,
   wind_speed_10m |-> wind, weather_code |-> code]

OpenMeteoBodies ==
  { [t |-> "null", current |-> NoCurrent],
    [t |-> "object", current |-> NoCurrent],
    [t |-> "object", current |-> [NoCurrent EXCEPT !.t = "null"]],
    [t |-> "object", current |-> Current(Undefined, Undefined, Undefined, Undefined)],
    [t |-> "object", current |-> Current(Num(15200), Undefined, Num(123), Num(3))],
    [t |-> "object", current |-> Current(Num(15200), Num(70), Num(123), Num(3))],
    [t |-> "object", current |-> Current(Num(-4260), Num(0), Num(0), Num(4))] }
  \cup { [t |-> "object", current |-> Current(Num(c), Num(70), Num(123), Num(3))] : c \in Temps }

NoDual == [t |-> "undefined", MetricValue |-> Undefined, MetricUnit |-> Undefined,
           ImperialValue |-> Undefined, ImperialUnit |-> Undefined]
Dual(metric, metricUnit, imperial, imperialUnit) ==
  [t |-> "object", MetricValue |-> metric, MetricUnit |-> metricUnit,
   ImperialValue |-> imperial, ImperialUnit |-> imperialUnit]
Conditions(text, temperature, humidity, wind) ==
  [t |-> "object", WeatherText |-> text, Temperature |-> temperature,
   RelativeHumidity |-> humidity, Wind |-> wind]
NoConditions == [Conditions(Undefined, NoDual, Undefined, NoDual) EXCEPT !.t = "undefined"]

AccuWind == Dual(Num(123), Str("km/h"), Num(76), Str("mi/h"))

AccuConditionsBodies ==
  { [t |-> "null", items |-> <<>>],
    [t |-> "object", items |-> <<>>],
    [t |-> "array", items |-> <<>>],
    [t |-> "array", items |-> <<Conditions(Str("Cloudy"), NoDual, Num(70), AccuWind)>>],
    [t |-> "array", items |->
       <<Conditions(Undefined, Dual(Num(15200), Str("C"), Num(59000), Str("F")),
                    Num(70), AccuWind)>>] }
  \cup { [t |-> "array", items |->
            <<Conditions(Str("Cloudy"), Dual(Num(c), Str("C"), Num(f), Str("F")), h, w)>>] :
         c \in Temps, f \in {32000, 59000},
         h \in {Undefined, Num(0), Num(70)}, w \in {NoDual, AccuWind} }

GeoBodies(variant) ==
  CASE variant = "openmeteo" -> NominatimBodies
    [] variant = "accuweather" -> AccuLocationBodies
    [] variant = "country" -> GeocodingBodies

WeatherBodies(variant) ==
  CASE variant = "accuweather" -> AccuConditionsBodies
    [] OTHER -> OpenMeteoBodies

GeoResponses(variant) == {Rejected, BadJson} \cup {Json(b) : b \in GeoBodies(variant)}
WeatherResponses(variant) == {Rejected, BadJson} \cup {Json(b) : b \in WeatherBodies(variant)}

\* the few answers used when several invocations are in flight
GeoResponsesConc(variant) ==
  { Rejected,
    Json(IF variant = "accuweather"
         THEN AccuLocation("object", Str("328328"), Str("London"),
                           [t |-> "object", LocalizedName |-> Str("United Kingdom")])
         ELSE [t |-> "object", results |->
                 Results(<<Place(Str("France"), Num(46), Num(2), Str("France"))>>)]) }

WeatherResponsesConc(variant) ==
  { Json(IF variant = "accuweather"
         THEN [t |-> "array", items |->
                 <<Conditions(Str("Cloudy"), Dual(Num(15200), Str("C"), Num(59000), Str("F")),
                              Num(70), AccuWind)>>]
         ELSE [t |-> "object", current |-> Current(Num(15200), Num(70), Num(123), Num(3))]) }

(* ---------------------------- one invocation --------------------------- *)

NoLocation == [city |-> Undefined, country |-> Undefined, key |-> Undefined,
               latitude |-> Undefined, longitude |-> Undefined]

Idle ==
  [pc |-> "idle", variant |-> "none",
   args |-> Args(Undefined, Undefined, Undefined, Undefined),
   unit |-> "fahrenheit", request |-> NoStore, viaSSE |-> FALSE,
   lat |-> Undefined, long |-> Undefined, country |-> Undefined,
   calls |-> <<>>, geo |-> NoResp, weather |-> NoResp, location |-> NoLocation,
   outcome |-> "pending", result |-> NoResult, thrown |-> ""]

\* unit: z.enum([...]).optional().default('fahrenheit')
unitSchema(unit) == IF unit.t = "undefined" THEN "fahrenheit" ELSE unit.s

\* a fetch that sends its GET again
FetchWithRetry(r, to, q, pc) ==
  [r EXCEPT !.calls = @ \o <<[to |-> to, q |-> q], [to |-> to, q |-> q]>>, !.pc = pc]
\* await fetch(url): the GET goes out, the handler waits at pc
Fetch(r, to, q, pc) == [r EXCEPT !.calls = Append(@, [to |-> to, q |-> q]), !.pc = pc]

\* the handler returns result
Return(r, result) == [r EXCEPT !.pc = "done", !.outcome = "returned", !.result = result]
\* catch (error) { return { isError: true, content: [...getErrorMessage(error)] } }
Caught(r, error) == Return(r, ErrorResult(getErrorMessage(error)))
\* no try/catch around the throwing statement: the handler's promise rejects
Escaped(r, error) == [r EXCEPT !.pc = "done", !.outcome = "threw", !.thrown = error.message.s]

\* the store kept in one module-level cell that every run() overwrites
getStoreShared(i) == IF lastRun = 0 THEN NoStore ELSE requestStorage[lastRun]
\* requestStorage.getStore() in the async context of invocation i
getStore(i) == requestStorage[i]

\* store?.cf?.latitude, store?.cf?.longitude
ambientCoordinate(store, f) ==
  IF store.t = "undefined" \/ store.cf.t = "undefined" THEN Undefined ELSE store.cf[f]

\* request?.headers.get('CF-IPCountry') ?? undefined
ambientCountry(store) ==
  IF store.t = "undefined" THEN Undefined ELSE Coalesce(store.ipCountry, Undefined)

(* openmeteo: src/src/index.ts:78-133 *)

openMeteoStart(r) ==
  Fetch([r EXCEPT !.lat = r.args.latitude, !.long = r.args.longitude],
        "geocoder", <<r.args.latitude, r.args.longitude>>, "geocoding")

openMeteoAfterGeocode(r, resp) ==
  CASE resp.net = "reject" -> Caught(r, FetchFailed)
    [] resp.net = "badjson" -> Caught(r, JsonSyntaxError)
    [] OTHER ->
         IF ~nominatimParseOk(resp.body)
         THEN Caught(r, ZodError("address"))
         ELSE Fetch([r EXCEPT !.location = reverseGeocodeResult(resp.body)],
                    "weather", <<r.lat, r.long>>, "weather")

openMeteoAfterWeather(r, resp) ==
  CASE resp.net = "reject" -> Caught(r, FetchFailed)
    [] resp.net = "badjson" -> Caught(r, JsonSyntaxError)
    [] OTHER ->
         IF ~weatherResultParseOk(resp.body)
         THEN Caught(r, ZodError("current"))
         ELSE IF ~Truthy(resp.body.current)
         THEN Return(r, ErrorResult("Weather data not available or invalid API response"))
         ELSE Return(r, TextResult(openMeteoText(r.location, r.unit, resp.body.current)))

(* accuweather: src/unnamed/part_000:136-189 *)

accuWeatherStart(r, store, apiKey) ==
  LET lat == Coalesce(r.args.latitude, ambientCoordinate(store, "latitude"))
      long == Coalesce(r.args.longitude, ambientCoordinate(store, "longitude"))
      r1 == [r EXCEPT !.lat = lat, !.long = long]
  IN  IF ~IsCoordinate(lat)
      THEN Caught(r1, InvariantError("Latitude is required and could not be found"))
      ELSE IF ~IsCoordinate(long)
      THEN Caught(r1, InvariantError("Longitude is required and could not be found"))
      ELSE IF apiKey = ""
      THEN Caught(r1, InvariantError("ACCUWEATHER_API_KEY is required"))
      ELSE Fetch(r1, "geocoder", <<lat, long>>, "geocoding")

accuWeatherAfterGeocode(r, resp) ==
  CASE resp.net = "reject" -> Caught(r, FetchFailed)
    [] resp.net = "badjson" -> Caught(r, JsonSyntaxError)
    [] OTHER ->
         IF ~accuWeatherLocationParseOk(resp.body)
         THEN Caught(r, ZodError("location"))
         ELSE LET location == getLocationKeyResult(resp.body)
              IN  Fetch([r EXCEPT !.location = location],
                        "weather", <<location.key, Undefined>>, "weather")

\* data[0] of the parsed JSON
firstOf(body) == IF body.t = "array" /\ Len(body.items) > 0 THEN body.items[1] ELSE NoConditions

accuWeatherAfterWeather(r, resp) ==
  CASE resp.net = "reject" -> Caught(r, FetchFailed)
    [] resp.net = "badjson" -> Caught(r, JsonSyntaxError)
    [] OTHER ->
         IF resp.body.t = "null"
         THEN Caught(r, NullAccess)
         ELSE IF ~accuWeatherCurrentConditionsParseOk(firstOf(resp.body))
         THEN Caught(r, ZodError("conditions"))
         ELSE Return(r, TextResult(accuWeatherText(r.location, r.unit, firstOf(resp.body))))

(* country: src/unnamed/part_000:272-328 *)

countryStart(r, store) ==
  LET country == Coalesce(r.args.country, ambientCountry(store))
      r1 == [r EXCEPT !.country = country]
  IN  IF ~Truthy(country)
      THEN Return(r1, ErrorResult("Country not detected"))
      ELSE Fetch(r1, "geocoder", <<country, Undefined>>, "geocoding")

countryAfterGeocode(r, resp) ==
  CASE resp.net = "reject" -> Escaped(r, FetchFailed)
    [] resp.net = "badjson" -> Escaped(r, JsonSyntaxError)
    [] OTHER ->
         IF resp.body.t = "null"
         THEN Escaped(r, NullAccess)
         ELSE IF ~hasFirstResult(resp.body)
         THEN Return(r, ErrorResult("Country not found"))
         ELSE LET location == firstResultLocation(resp.body)
              IN  Fetch([r EXCEPT !.location = location],
                        "weather", <<location.latitude, location.longitude>>, "weather")

countryAfterWeather(r, resp) ==
  CASE resp.net = "reject" -> Escaped(r, FetchFailed)
    [] resp.net = "badjson" -> Escaped(r, JsonSyntaxError)
    [] OTHER ->
         IF resp.body.t = "null"
         THEN Escaped(r, NullAccess)
         ELSE IF ~Truthy(resp.body.current)
         THEN Return(r, ErrorResult("Weather data not available"))
         ELSE Return(r, TextResult(countryText(r.location, resp.body.current)))

(* ---------------------------- actions ---------------------------------- *)

\* requestStorage.run(request, () => super.onSSEMcpMessage(sessionId, request)):
\* the message of invocation i arrives on request, whose async context gets
\* request as its store
onSSEMcpMessage(i, variant, args, request) ==
  /\ inv[i].pc = "idle"
  /\ variant \in {"accuweather", "country"}
  /\ inv' = [inv EXCEPT ![i] = [@ EXCEPT !.pc = "received", !.variant = variant,
                                         !.args = args, !.unit = unitSchema(args.unit),
                                         !.request = request, !.viaSSE = TRUE]]
  /\ requestStorage' = [requestStorage EXCEPT ![i] = request]
  /\ lastRun' = i
  /\ UNCHANGED <<env, probe>>

\* the message reaches the server outside requestStorage.run: the openmeteo
\* variant has no requestStorage, and the other two wrap onSSEMcpMessage alone
onMessage(i, variant, args, request) ==
  /\ inv[i].pc = "idle"
  /\ inv' = [inv EXCEPT ![i] = [@ EXCEPT !.pc = "received", !.variant = variant,
                                         !.args = args, !.unit = unitSchema(args.unit),
                                         !.request = request]]
  /\ UNCHANGED <<env, requestStorage, lastRun, probe>>

\* the getWeather handler, from its first statement to its first await or return
getWeather(i) ==
  /\ inv[i].pc = "received"
  /\ inv' = [inv EXCEPT ![i] =
       CASE @.variant = "openmeteo" -> openMeteoStart(@)
         [] @.variant = "accuweather" -> accuWeatherStart(@, getStore(i), env.ACCUWEATHER_API_KEY)
         [] OTHER -> countryStart(@, getStore(i))]
  /\ UNCHANGED <<env, requestStorage, lastRun, probe>>

\* the geocoder's fetch settles and the handler runs on to the weather fetch
\* or to its end
geocoderResponds(i, resp) ==
  /\ inv[i].pc = "geocoding"
  /\ inv' = [inv EXCEPT ![i] =
       LET r == [@ EXCEPT !.geo = resp]
       IN  CASE r.variant = "openmeteo" -> openMeteoAfterGeocode(r, resp)
             [] r.variant = "accuweather" -> accuWeatherAfterGeocode(r, resp)
             [] OTHER -> countryAfterGeocode(r, resp)]
  /\ UNCHANGED <<env, requestStorage, lastRun, probe>>

\* the weather provider's fetch settles and the handler runs to its end
weatherResponds(i, resp) ==
  /\ inv[i].pc = "weather"
  /\ inv' = [inv EXCEPT ![i] =
       LET r == [@ EXCEPT !.weather = resp]
       IN  CASE r.variant = "openmeteo" -> openMeteoAfterWeather(r, resp)
             [] r.variant = "accuweather" -> accuWeatherAfterWeather(r, resp)
             [] OTHER -> countryAfterWeather(r, resp)]
  /\ UNCHANGED <<env, requestStorage, lastRun, probe>>

Variants == {"openmeteo", "accuweather", "country"}

NoProbe == [file |-> "none", code |-> 0, called |-> FALSE, description |-> ""]

\* one invocation; the API key is set or not
Init ==
  /\ env \in {[ACCUWEATHER_API_KEY |-> k] : k \in {"", "key"}}
  /\ inv = [i \in {1} |-> Idle]
  /\ requestStorage = [i \in {1} |-> NoStore]
  /\ lastRun = 0
  /\ probe = NoProbe

SSEMessageArrives ==
  \E i \in DOMAIN inv, variant \in {"accuweather", "country"}, request \in Requests :
    \E args \in ArgsOf(variant) : onSSEMcpMessage(i, variant, args, request)

MessageArrives ==
  \E i \in DOMAIN inv, variant \in Variants, request \in Requests :
    \E args \in ArgsOf(variant) : onMessage(i, variant, args, request)

HandlerRuns == \E i \in DOMAIN inv : getWeather(i)

GeocoderAnswers ==
  \E i \in DOMAIN inv :
    /\ inv[i].pc = "geocoding"
    /\ \E resp \in GeoResponses(inv[i].variant) : geocoderResponds(i, resp)

WeatherAnswers ==
  \E i \in DOMAIN inv :
    /\ inv[i].pc = "weather"
    /\ \E resp \in WeatherResponses(inv[i].variant) : weatherResponds(i, resp)

Next ==
  \/ SSEMessageArrives
  \/ MessageArrives
  \/ HandlerRuns
  \/ GeocoderAnswers
  \/ WeatherAnswers

Spec == Init /\ [][Next]_vars

(* several invocations in flight, each on its own inbound request *)

InitConc ==
  /\ env = [ACCUWEATHER_API_KEY |-> "key"]
  /\ inv = [i \in 1..NumInv |-> Idle]
  /\ requestStorage = [i \in 1..NumInv |-> NoStore]
  /\ lastRun = 0
  /\ probe = NoProbe

SSEMessageArrivesConc ==
  \E i \in DOMAIN inv, variant \in {"accuweather", "country"} :
    \E args \in ArgsConc(variant) : onSSEMcpMessage(i, variant, args, RequestOf(i))

MessageArrivesConc ==
  \E i \in DOMAIN inv, variant \in {"accuweather", "country"} :
    \E args \in ArgsConc(variant) : onMessage(i, variant, args, RequestOf(i))

GeocoderAnswersConc ==
  \E i \in DOMAIN inv :
    /\ inv[i].pc = "geocoding"
    /\ \E resp \in GeoResponsesConc(inv[i].variant) : geocoderResponds(i, resp)

WeatherAnswersConc ==
  \E i \in DOMAIN inv :
    /\ inv[i].pc = "weather"
    /\ \E resp \in WeatherResponsesConc(inv[i].variant) : weatherResponds(i, resp)

NextConc ==
  \/ SSEMessageArrivesConc
  \/ MessageArrivesConc
  \/ HandlerRuns
  \/ GeocoderAnswersConc
  \/ WeatherAnswersConc

SpecConc == InitConc /\ [][NextConc]_vars

(* getWeatherDescription alone, over every code in range, in both files *)

InitDesc ==
  /\ env = [ACCUWEATHER_API_KEY |-> "key"]
  /\ inv = [i \in {1} |-> Idle]
  /\ requestStorage = [i \in {1} |-> NoStore]
  /\ lastRun = 0
  /\ probe \in {[file |-> f, code |-> c, called |-> FALSE, description |-> ""] :
                  f \in {"src/src/index.ts", "src/unnamed/part_000"},
                  c \in -MaxCode..MaxCode}

Describe ==
  /\ ~probe.called
  /\ probe' = [probe EXCEPT !.called = TRUE,
                            !.description = getWeatherDescription(probe.code)]
  /\ UNCHANGED <<env, inv, requestStorage, lastRun>>

NextDesc == Describe

SpecDesc == InitDesc /\ [][NextDesc]_vars

(* ---------------------------- properties ------------------------------- *)

CallsTo(r, to) == Cardinality({k \in 1..Len(r.calls) : r.calls[k].to = to})
Succeeded(r) == r.pc = "done" /\ r.outcome = "returned" /\ ~r.result.isError
LinesOf(r, kind) == {k \in 1..Len(r.result.lines) : r.result.lines[k].kind = kind}
\* v, a whole number of tenths, is a nearest tenth to x (both in thousandths)
RoundsTo(v, x) == v % 100 = 0 /\ 2 * Abs(v - x) <= 100

\* C1: every failure inside a getWeather invocation is caught at the tool
\* boundary: no finished invocation has let an exception escape the handler,
\* and one whose fetch rejected or whose body was not JSON returned
\* isError:true with a text message.
C1_FailuresCaughtAtBoundary ==
  \A i \in DOMAIN inv :
    inv[i].pc = "done" =>
      /\ inv[i].outcome = "returned"
      /\ (inv[i].geo.net \in {"reject", "badjson"}
          \/ inv[i].weather.net \in {"reject", "badjson"})
           => inv[i].result.isError /\ inv[i].result.message # ""

\* C2: the ambient context of invocation i supplies no number for a
\* coordinate the arguments leave out
MissingCoordinate(i) ==
  \E f \in {"latitude", "longitude"} :
    /\ inv[i].args[f].t = "undefined"
    /\ ambientCoordinate(requestStorage[i], f).t # "number"

\* C2: in the tool whose latitude and longitude are optional (accuweather),
\* an invocation that lacks a coordinate the ambient request context does not
\* supply as a number ends, as soon as the handler has run, with isError:true
\* and a message naming the latitude or the longitude as missing, and has
\* made no outbound call.
C2_MissingCoordinateFailsBeforeAnyCall ==
  \A i \in DOMAIN inv :
    (inv[i].variant = "accuweather" /\ inv[i].pc \notin {"idle", "received"}
     /\ MissingCoordinate(i)) =>
      /\ inv[i].pc = "done"
      /\ inv[i].outcome = "returned"
      /\ inv[i].result.isError
      /\ inv[i].result.message \in {"Latitude is required and could not be found",
                                    "Longitude is required and could not be found"}
      /\ inv[i].calls = <<>>

\* C2 witness: the handler has run with the latitude left out and the
\* request's cf carrying it as a string, and has failed without any call.
C2_Witness ==
  \E i \in DOMAIN inv :
    /\ inv[i].variant = "accuweather" /\ inv[i].pc = "done"
    /\ inv[i].args.latitude.t = "undefined"
    /\ requestStorage[i].t = "request" /\ requestStorage[i].cf.latitude.t = "string"
    /\ inv[i].result.isError /\ inv[i].calls = <<>>

\* C3: the geocoder answered the country lookup with no result at all
ZeroResults(r) ==
  /\ r.geo.net = "json" /\ r.geo.body.t = "object"
  /\ r.geo.body.results.t = "undefined" \/ r.geo.body.results.items = <<>>

\* C3: in country mode, once the geocoder has answered with zero results the
\* invocation has returned isError:true with the message "Country not found"
\* and the weather provider has not been called.
C3_CountryNotFound ==
  \A i \in DOMAIN inv :
    (inv[i].variant = "country" /\ ZeroResults(inv[i])) =>
      /\ inv[i].pc = "done"
      /\ inv[i].outcome = "returned"
      /\ inv[i].result.isError
      /\ inv[i].result.message = "Country not found"
      /\ CallsTo(inv[i], "weather") = 0

\* C3 witness: the geocoder answered { results: [] } and the invocation ended.
C3_Witness ==
  \E i \in DOMAIN inv :
    /\ inv[i].variant = "country" /\ inv[i].pc = "done"
    /\ inv[i].geo.net = "json" /\ inv[i].geo.body.t = "object"
    /\ inv[i].geo.body.results.t = "array" /\ inv[i].geo.body.results.items = <<>>

\* the optional field f of the weather answer of r is absent
HumidityAbsent(r) ==
  IF r.variant = "accuweather"
  THEN firstOf(r.weather.body).RelativeHumidity.t = "undefined"
  ELSE r.weather.body.current.relative_humidity_2m.t = "undefined"
WindAbsent(r) ==
  IF r.variant = "accuweather"
  THEN firstOf(r.weather.body).Wind.t = "undefined"
  ELSE r.weather.body.current.wind_speed_10m.t = "undefined"

\* C4: in every success text of the variant whose schema makes humidity and
\* wind optional (accuweather), every line between the header and the
\* conditions line is a non-empty bullet, and an optional field absent from
\* the provider's answer has no bullet line.
C4_NoPlaceholderLines ==
  \A i \in DOMAIN inv :
    (Succeeded(inv[i]) /\ inv[i].variant = "accuweather") =>
      /\ \A k \in 2..(Len(inv[i].result.lines) - 1) :
           inv[i].result.lines[k].kind \in {"temperature", "humidity", "wind"}
      /\ HumidityAbsent(inv[i]) => LinesOf(inv[i], "humidity") = {}
      /\ WindAbsent(inv[i]) => LinesOf(inv[i], "wind") = {}

\* the store the async context of invocation i was given by its own inbound
\* request
OwnStore(i) == IF inv[i].viaSSE THEN inv[i].request ELSE NoStore

\* C5: with several invocations in flight on different inbound requests, the
\* latitude, longitude or country an invocation resolves is its argument or,
\* that missing, the value of its own inbound request: never a value of the
\* request of another invocation.
C5_AmbientContextIsOwnRequest ==
  \A i \in DOMAIN inv :
    inv[i].pc \notin {"idle", "received"} =>
      /\ inv[i].variant = "accuweather" =>
           /\ inv[i].lat = Coalesce(inv[i].args.latitude,
                                    ambientCoordinate(OwnStore(i), "latitude"))
           /\ inv[i].long = Coalesce(inv[i].args.longitude,
                                     ambientCoordinate(OwnStore(i), "longitude"))
      /\ inv[i].variant = "country" =>
           inv[i].country = Coalesce(inv[i].args.country, ambientCountry(OwnStore(i)))
      /\ \A j \in DOMAIN inv \ {i} :
           /\ inv[i].lat # RequestOf(j).cf.latitude
           /\ inv[i].long # RequestOf(j).cf.longitude
           /\ inv[i].country # RequestOf(j).ipCountry

\* C5 witness: two invocations wait on their fetches at the same time, each
\* having taken its fallback from its request, and the later run() was not
\* that of the first.
C5_Witness ==
  \E i, j \in DOMAIN inv :
    /\ i # j /\ lastRun = j
    /\ inv[i].pc \in {"geocoding", "weather"} /\ inv[j].pc \in {"geocoding", "weather"}
    /\ inv[i].variant = "accuweather" /\ inv[i].args.latitude.t = "undefined"
    /\ inv[i].lat = RequestOf(i).cf.latitude
    /\ inv[j].variant = "country" /\ inv[j].args.country.t = "undefined"
    /\ inv[j].country = RequestOf(j).ipCountry

\* the input resolution of r, done by the handler before any call, succeeded
InputResolved(r) ==
  CASE r.variant = "accuweather" ->
         r.lat.t = "number" /\ r.long.t = "number" /\ env.ACCUWEATHER_API_KEY # ""
    [] r.variant = "country" -> Truthy(r.country)
    [] OTHER -> TRUE

\* the geocoder's answer has arrived and the handler went on with it
GeoAccepted(r) ==
  /\ r.geo.net = "json"
  /\ r.geo.body.t = "object"
  /\ r.location # NoLocation

\* C6 as stated: a finished invocation has sent the geocoder exactly one GET
\* and the weather provider at most one, the weather GET only after the
\* geocoder's answer was accepted; a successful one has sent one to each,
\* geocoder first.
C6_ExactlyOneGeocoderGet ==
  \A i \in DOMAIN inv :
    inv[i].pc = "done" =>
      /\ CallsTo(inv[i], "geocoder") = 1
      /\ CallsTo(inv[i], "weather") <= 1
      /\ CallsTo(inv[i], "weather") = 1 => GeoAccepted(inv[i])
      /\ Succeeded(inv[i]) =>
           /\ Len(inv[i].calls) = 2
           /\ inv[i].calls[1].to = "geocoder" /\ inv[i].calls[2].to = "weather"

\* C6 amended: once the handler has run, the geocoder has received exactly
\* one GET if input resolution succeeded and none if it failed (the
\* invocation then ended with isError:true); the weather provider has received
\* at most one GET, and only after the geocoder's answer arrived and was
\* accepted; if the geocoding step failed it has received none; a successful
\* invocation has made exactly one call to each, geocoder then weather.
C6_AtMostOneGetEach ==
  \A i \in DOMAIN inv :
    inv[i].pc \notin {"idle", "received"} =>
      /\ CallsTo(inv[i], "geocoder") = IF InputResolved(inv[i]) THEN 1 ELSE 0
      /\ ~InputResolved(inv[i]) =>
           inv[i].pc = "done" /\ inv[i].result.isError /\ inv[i].calls = <<>>
      /\ CallsTo(inv[i], "weather") <= 1
      /\ CallsTo(inv[i], "weather") = 1 =>
           /\ GeoAccepted(inv[i])
           /\ Len(inv[i].calls) = 2
           /\ inv[i].calls[1].to = "geocoder" /\ inv[i].calls[2].to = "weather"
      /\ (inv[i].geo.net # "none" /\ ~GeoAccepted(inv[i])) => CallsTo(inv[i], "weather") = 0
      /\ Succeeded(inv[i]) => CallsTo(inv[i], "weather") = 1

\* C6 witness: an invocation succeeded after one GET to each provider.
C6_Witness ==
  \E i \in DOMAIN inv :
    /\ Succeeded(inv[i])
    /\ Len(inv[i].calls) = 2
    /\ inv[i].calls[1].to = "geocoder" /\ inv[i].calls[2].to = "weather"

\* the provider's Celsius reading in the weather answer of r
RawCelsius(r) ==
  IF r.variant = "accuweather"
  THEN firstOf(r.weather.body).Temperature.MetricValue
  ELSE r.weather.body.current.temperature_2m
\* the provider's own Fahrenheit reading (accuweather only)
RawImperial(r) == firstOf(r.weather.body).Temperature.ImperialValue

TemperatureLine(r) == r.result.lines[CHOOSE k \in LinesOf(r, "temperature") : TRUE]

\* C7 as stated, for the variants that take a latitude and a longitude: a
\* success text has exactly one temperature bullet; with unit celsius its
\* value is the provider's raw Celsius reading, with unit fahrenheit (the
\* default) it is C*9/5+32 rounded to one decimal; the unit letter matches.
C7_TemperatureBullet ==
  \A i \in DOMAIN inv :
    (Succeeded(inv[i]) /\ inv[i].variant # "country") =>
      /\ Cardinality(LinesOf(inv[i], "temperature")) = 1
      /\ inv[i].unit = "celsius" =>
           /\ TemperatureLine(inv[i]).a = RawCelsius(inv[i])
           /\ TemperatureLine(inv[i]).b = Str("C")
      /\ inv[i].unit = "fahrenheit" =>
           /\ TemperatureLine(inv[i]).a.t = "number"
           /\ RoundsTo(TemperatureLine(inv[i]).a.n,
                       (RawCelsius(inv[i]).n * 9) \div 5 + 32000)
           /\ TemperatureLine(inv[i]).b = Str("F")

\* C7 amended: a success text has exactly one temperature bullet. In the
\* openmeteo variant its value is, with unit celsius, the provider's Celsius
\* reading rounded to one decimal and, with unit fahrenheit (the default),
\* C*9/5+32 rounded to one decimal. In the accuweather variant it is the
\* provider's own Metric reading (celsius) or Imperial reading (fahrenheit,
\* the default) rounded to one decimal. The unit letter matches in both. The
\* country variant takes no unit and prints the provider's Celsius reading
\* as it came, with the letter C.
C7_TemperatureBulletPerVariant ==
  \A i \in DOMAIN inv :
    Succeeded(inv[i]) =>
      /\ Cardinality(LinesOf(inv[i], "temperature")) = 1
      /\ inv[i].variant = "country" =>
           /\ TemperatureLine(inv[i]).a = RawCelsius(inv[i])
           /\ TemperatureLine(inv[i]).b = Str("C")
      /\ inv[i].variant # "country" =>
           /\ TemperatureLine(inv[i]).a.t = "number"
           /\ TemperatureLine(inv[i]).b =
                Str(IF inv[i].unit = "fahrenheit" THEN "F" ELSE "C")
           /\ RoundsTo(TemperatureLine(inv[i]).a.n,
                CASE inv[i].unit = "celsius" -> RawCelsius(inv[i]).n
                  [] inv[i].variant = "openmeteo" ->
                       (RawCelsius(inv[i]).n * 9) \div 5 + 32000
                  [] OTHER -> RawImperial(inv[i]).n)

\* C7 witness: the openmeteo variant succeeded with no unit given, on a
\* below-zero reading that is not a whole number of tenths.
C7_Witness ==
  \E i \in DOMAIN inv :
    /\ Succeeded(inv[i]) /\ inv[i].variant = "openmeteo"
    /\ inv[i].args.unit.t = "undefined"
    /\ RawCelsius(inv[i]).n < 0 /\ RawCelsius(inv[i]).n % 100 # 0
    /\ TemperatureLine(inv[i]).b = Str("F")

\* the weather provider answered with JSON that lacks required weather data
LacksWeatherData(r) ==
  /\ r.weather.net = "json"
  /\ IF r.variant = "accuweather"
     THEN r.weather.body.t # "null"
          /\ ~accuWeatherCurrentConditionsParseOk(firstOf(r.weather.body))
     ELSE r.weather.body.t = "object" /\ ~weatherResultParseOk(r.weather.body)

\* C8, for the variant with the strict weatherResultSchema (openmeteo): when
\* the weather provider's answer lacks required weather data, the invocation
\* returns isError:true with the message that weather data is not available,
\* and never a success built from the missing fields.
C8_MissingDataIsDataUnavailable ==
  \A i \in DOMAIN inv :
    (inv[i].variant = "openmeteo" /\ LacksWeatherData(inv[i])) =>
      /\ inv[i].pc = "done"
      /\ inv[i].outcome = "returned"
      /\ inv[i].result.isError
      /\ inv[i].result.message \in
           {"Weather data not available",
            "Weather data not available or invalid API response"}

\* the geocoder's JSON answer does not carry a place name and a country
LacksPlaceFields(r) ==
  /\ r.geo.net = "json"
  /\ CASE r.variant = "openmeteo" ->
            \/ r.geo.body.t # "object"
            \/ r.geo.body.address.t # "object"
            \/ ~IsString(r.geo.body.address.country)
            \/ \A f \in {"city", "town", "village"} : ~IsString(r.geo.body.address[f])
       [] r.variant = "accuweather" -> ~accuWeatherLocationParseOk(r.geo.body)
       [] OTHER ->
            /\ r.geo.body.t = "object"
            /\ hasFirstResult(r.geo.body)
            /\ ~IsString(firstResult(r.geo.body).name)
               \/ ~IsString(firstResult(r.geo.body).country)

\* C9: whenever the geocoder's answer lacks the place-name or the country
\* field, the invocation ends with isError:true and the weather provider is
\* not asked: there is no success text with placeholder location data.
C9_GeocoderShapeValidated ==
  \A i \in DOMAIN inv :
    LacksPlaceFields(inv[i]) =>
      /\ inv[i].pc = "done"
      /\ inv[i].outcome = "returned"
      /\ inv[i].result.isError

\* C10: getWeatherDescription gives, for every code of the static table, the
\* table's string, and for every other code exactly "Unknown".
C10_DescriptionTotal ==
  probe.called =>
    /\ probe.code \in DOMAIN weatherCodes => probe.description = weatherCodes[probe.code]
    /\ probe.code \notin DOMAIN weatherCodes => probe.description = "Unknown"
    /\ probe.code = 3 => probe.description = "Overcast"
    /\ probe.code = 99 => probe.description = "Thunderstorm with heavy hail"

\* C10 witness: a code outside the table, between two codes of it, was
\* described as "Unknown".
C10_Witness ==
  /\ probe.called
  /\ probe.code = 4
  /\ probe.file = "src/unnamed/part_000"
  /\ probe.description = "Unknown"

====
